---------------------------- MODULE Spec2Model ----------------------------
(***************************************************************************)
(* The WERBPE metric of nemo/collections/asr/metrics/wer_bpe.py: a pair of *)
(* running totals (scores, words) per metric instance, update() over a     *)
(* batch of predicted and reference token ids, compute() returning the     *)
(* ratio and the two totals, and the sum reduction that combines the       *)
(* states of independent instances.                                        *)
(*                                                                         *)
(* Text is a sequence of one-character strings.  The tokenizer, the CTC    *)
(* decoder of AbstractCTCDecoding and the editdistance library are not     *)
(* part of wer_bpe.py; they are modelled by IdsToText, Fold /              *)
(* DecodeBatch and Levenshtein.                                            *)
(***************************************************************************)
EXTENDS Integers, Sequences, FiniteSets

(* ------------------------------ bounds --------------------------------- *)

\* tokenizer.tokenizer.vocab_size: ids 0 .. VocabSize-1 are pieces
VocabSize == 2
\* the Time dimension of the tensors of a batch of several samples
MaxTime == 1
\* the largest Batch dimension of the predictions and of the targets tensor
MaxBatch == 2
\* the Time dimension of the tensors of a batch of one sample
MaxLongTime == 3
\* the number of update() calls that are made on all instances together
MaxUpdates == 2

(* --------------------------- configuration ----------------------------- *)

\* the metric instances (one per worker of a distributed evaluation)
Workers == {1, 2}

\* the id of the piece that starts a word, and the padding of a tensor row
WordStartId == 0
PadId == 0

\* the letters of the pieces 1, 2, ...
Letters == <<"a", "b", "c", "d", "e", "f">>

SPACE == " "

VARIABLES
    use_cer,          \* self.use_cer
    log_prediction,   \* self.log_prediction
    fold_consecutive, \* self.fold_consecutive
    scores,           \* self.scores of each instance
    words,            \* self.words of each instance
    pc,               \* "idle", "invoked" (update() entered), "returned"
    op,               \* the operation of the current call
    self,             \* the instance of the current call, 0 when there is none
    args,             \* the arguments of the current update() call
    outcome,          \* how the current call ended
    ret,              \* what compute() returned
    references,       \* the local references of the current update() call
    hypotheses,       \* the local hypotheses of the current update() call
    total_scores,     \* history: distances of all pairs processed by an instance
    total_words,      \* history: reference units of all pairs processed
    processed,        \* history: update() calls that returned, per instance
    single_scores,    \* self.scores of one more instance that is given every batch
    single_words,     \* self.words of that instance
    n_updates         \* history: update() calls made so far

vars == <<use_cer, log_prediction, fold_consecutive, scores, words, pc, op, self,
          args, outcome, ret, references, hypotheses, total_scores, total_words,
          processed, single_scores, single_words, n_updates>>

history == <<total_scores, total_words, processed, single_scores, single_words>>

locals == <<references, hypotheses>>

config == <<use_cer, log_prediction, fold_consecutive>>

(* ------------------------------ helpers -------------------------------- *)

Min(a, b) == IF a <= b THEN a ELSE b

RECURSIVE GCD(_, _)
GCD(a, b) == IF b = 0 THEN a ELSE GCD(b, a % b)

RECURSIVE SumSeq(_)
SumSeq(s) == IF s = <<>> THEN 0 ELSE Head(s) + SumSeq(Tail(s))

\* all sequences over S of length 0 .. n
SeqsUpTo(S, n) == UNION {[1..k -> S] : k \in 0..n}

(* ------------------------------ tokenizer ------------------------------ *)

\* self.blank_id = self.decoding.tokenizer.tokenizer.vocab_size
blank_id == VocabSize

\* the textual piece of one id: the word-start marker reads as a space
Piece(id) == IF id = WordStartId THEN SPACE ELSE Letters[id]

RECURSIVE LStrip(_)
LStrip(s) == IF s # <<>> /\ Head(s) = SPACE THEN LStrip(Tail(s)) ELSE s

\* the tokenizer knows the ids below its vocabulary size only
KnownIds(ids) == \A i \in 1..Len(ids) : ids[i] \in 0..(VocabSize - 1)

\* tokenizer.ids_to_text: the pieces joined, without the leading space
IdsToText(ids) == LStrip([i \in 1..Len(ids) |-> Piece(ids[i])])

\* CTCBPEDecoding.decode_tokens_to_str
decode_tokens_to_str(tokens) == IdsToText(tokens)

(* ------------------------------- decoder ------------------------------- *)

RECURSIVE FoldFrom(_, _, _, _, _)
FoldFrom(ids, blank, foldConsecutive, previous, out) ==
    IF ids = <<>> THEN out
    ELSE LET id == Head(ids) IN
         IF foldConsecutive /\ id = previous
         THEN FoldFrom(Tail(ids), blank, foldConsecutive, previous, out)
         ELSE FoldFrom(Tail(ids), blank, foldConsecutive, id,
                       IF id # blank THEN Append(out, id) ELSE out)

\* SequenceFolder.fold: collapse repeated ids, drop blanks
Fold(ids, blank, foldConsecutive) == FoldFrom(ids, blank, foldConsecutive, -1, <<>>)

\* the decoded ids of every sample of a predictions tensor; the callers of this
\* model always pass predictions_lengths
DecodeIds(predictions, predictions_lengths, foldConsecutive) ==
    [i \in 1..Len(predictions) |->
        Fold(SubSeq(predictions[i], 1, predictions_lengths[i]), blank_id, foldConsecutive)]

\* ctc_decoder_predictions_tensor: the hypothesis strings, in batch order
DecodeBatch(predictions, predictions_lengths, foldConsecutive) ==
    LET ids == DecodeIds(predictions, predictions_lengths, foldConsecutive)
    IN  [i \in 1..Len(ids) |-> IdsToText(ids[i])]


(* ----------------------------- edit distance --------------------------- *)

Min3(a, b, c) == Min(a, Min(b, c))

RECURSIVE LevenshteinAt(_, _, _, _)
LevenshteinAt(a, b, i, j) ==
    IF i = 0 THEN j
    ELSE IF j = 0 THEN i
    ELSE Min3(LevenshteinAt(a, b, i - 1, j) + 1,
              LevenshteinAt(a, b, i, j - 1) + 1,
              LevenshteinAt(a, b, i - 1, j - 1) + (IF a[i] = b[j] THEN 0 ELSE 1))

\* editdistance.eval: insertions, deletions and substitutions of cost 1
Levenshtein(a, b) == LevenshteinAt(a, b, Len(a), Len(b))

(* ------------------------------- update -------------------------------- *)

RECURSIVE SplitFrom(_, _, _)
SplitFrom(s, cur, out) ==
    IF s = <<>> THEN (IF cur = <<>> THEN out ELSE Append(out, cur))
    ELSE IF Head(s) = SPACE
         THEN SplitFrom(Tail(s), <<>>, IF cur = <<>> THEN out ELSE Append(out, cur))
         ELSE SplitFrom(Tail(s), Append(cur, Head(s)), out)

\* str.split(): the maximal runs of characters other than whitespace
Split(s) == SplitFrom(s, <<>>, <<>>)

\* h_list / r_list: list(h) in character mode, h.split() in word mode
Units(text) == IF use_cer THEN text ELSE Split(text)

\* targets[ind][:tgt_len] of every sample
TargetIds(targets, target_lengths) ==
    [ind \in 1..Len(targets) |-> SubSeq(targets[ind], 1, target_lengths[ind])]

\* the reference loop raises when the tokenizer meets an id it does not know
ReferencesRaise(targets, target_lengths) ==
    \E ind \in 1..Len(targets) : ~KnownIds(TargetIds(targets, target_lengths)[ind])

\* references: one decoded string per row of targets
References(targets, target_lengths) ==
    [ind \in 1..Len(targets) |->
        decode_tokens_to_str(TargetIds(targets, target_lengths)[ind])]

\* the decoder raises when a decoded id is not one of the tokenizer
HypothesesRaise(predictions, predictions_lengths) ==
    \E i \in 1..Len(predictions) :
        ~KnownIds(DecodeIds(predictions, predictions_lengths, fold_consecutive)[i])

\* a decoding that ignores the configured flag and always folds
HypothesesAlwaysFolded(predictions, predictions_lengths) ==
    DecodeBatch(predictions, predictions_lengths, TRUE)

\* hypotheses: ctc_decoder_predictions_tensor(..., fold_consecutive=self.fold_consecutive)
Hypotheses(predictions, predictions_lengths) ==
    DecodeBatch(predictions, predictions_lengths, fold_consecutive)

\* if self.log_prediction: references[0] and hypotheses[0] are read
LogRaises(log, refs, hyps) ==
    log /\ (refs = <<>> \/ hyps = <<>>)

\* zip(hypotheses, references): pairs up to the shorter of the two
Zip(hyps, refs) ==
    [i \in 1..Min(Len(hyps), Len(refs)) |-> <<hyps[i], refs[i]>>]

\* a loop that counts the units of the hypothesis: words += len(h_list)
BatchWordsOfHypotheses(pairs) ==
    SumSeq([i \in 1..Len(pairs) |-> Len(Units(pairs[i][1]))])

\* the local words after the loop: words += len(r_list)
BatchWords(pairs) ==
    SumSeq([i \in 1..Len(pairs) |-> Len(Units(pairs[i][2]))])

\* the local scores after the loop: scores += editdistance.eval(h_list, r_list)
BatchScores(pairs) ==
    SumSeq([i \in 1..Len(pairs) |-> Levenshtein(Units(pairs[i][1]), Units(pairs[i][2]))])

\* how update() ends on the given arguments when log_prediction is log
UpdateOutcomeWith(log, a) ==
    IF ReferencesRaise(a.targets, a.target_lengths) THEN "DecodeError"
    ELSE IF HypothesesRaise(a.predictions, a.predictions_lengths) THEN "DecodeError"
    ELSE IF LogRaises(log, References(a.targets, a.target_lengths),
                      Hypotheses(a.predictions, a.predictions_lengths)) THEN "IndexError"
    ELSE "ok"

\* how update() ends on the given arguments
UpdateOutcome(a) == UpdateOutcomeWith(log_prediction, a)

\* the pairs the loop of update() visits
UpdatePairs(a) ==
    Zip(Hypotheses(a.predictions, a.predictions_lengths),
        References(a.targets, a.target_lengths))

\* self.scores = torch.tensor(scores, ...): the state after an update() that returns
StoreScores(old, batch) == batch

\* self.words = torch.tensor(words, ...): the state after an update() that returns
StoreWords(old, batch) == batch

\* an update() that has added to the state before it raises
KeepOnRaisePartial(old) == old + 1

\* the state an update() that raises leaves behind: nothing was assigned
KeepOnRaise(old) == old

(* ------------------------------- compute ------------------------------- *)

\* a division that answers 0 when there are no reference units
DivideGuarded(s, w) ==
    IF w = 0 THEN [kind |-> "finite", num |-> 0, den |-> 1]
    ELSE [kind |-> "finite", num |-> s \div GCD(s, w), den |-> w \div GCD(s, w)]

\* scores / words on float tensors: nan for 0/0, inf for x/0, else the quotient
Divide(s, w) ==
    IF w = 0 THEN [kind |-> IF s = 0 THEN "nan" ELSE "inf", num |-> 0, den |-> 0]
    ELSE [kind |-> "finite", num |-> s \div GCD(s, w), den |-> w \div GCD(s, w)]

\* a compute() that divides the other way round: words / scores
ComputeValueSwapped(s, w) == [ratio |-> Divide(w, s), scores |-> s, words |-> w]

\* return scores / words, scores, words
ComputeValue(s, w) == [ratio |-> Divide(s, w), scores |-> s, words |-> w]

(* ------------------------------ reduction ------------------------------ *)

\* dist_reduce_fx='sum' of both states
Merge(x, y) == [scores |-> x.scores + y.scores, words |-> x.words + y.words]

State(w) == [scores |-> scores[w], words |-> words[w]]

(* ------------------------------- inputs -------------------------------- *)

\* ids a model emits: the pieces and the blank
PredictionIds == 0..blank_id

\* ids of a transcript: the pieces, and one id no tokenizer piece has
TranscriptIds == (0..(VocabSize - 1)) \cup {VocabSize + 1}

\* a row of a [Batch, Time] tensor: the ids, padded to Time
PadTo(s, time) == s \o [i \in 1..(time - Len(s)) |-> PadId]

\* a [Batch, Time] tensor with its lengths, from the unpadded samples
Tensor(samples, time) == [i \in 1..Len(samples) |-> PadTo(samples[i], time)]
Lengths(samples) == [i \in 1..Len(samples) |-> Len(samples[i])]

NoArgs == [predictions |-> <<>>, predictions_lengths |-> <<>>,
           targets |-> <<>>, target_lengths |-> <<>>]

NoRet == [ratio |-> [kind |-> "none", num |-> 0, den |-> 0], scores |-> 0, words |-> 0]

(* ------------------------------- actions ------------------------------- *)

\* WERBPE.__init__: the configuration, and both states at torch.tensor(0)
Init ==
    /\ use_cer \in BOOLEAN
    /\ log_prediction \in BOOLEAN
    /\ fold_consecutive \in BOOLEAN
    /\ scores = [w \in Workers |-> 0]
    /\ words = [w \in Workers |-> 0]
    /\ pc = "idle"
    /\ op = "none"
    /\ self = 0
    /\ args = NoArgs
    /\ outcome = "none"
    /\ ret = NoRet
    /\ references = <<>>
    /\ hypotheses = <<>>
    /\ total_scores = [w \in Workers |-> 0]
    /\ total_words = [w \in Workers |-> 0]
    /\ processed = [w \in Workers |-> 0]
    /\ single_scores = 0
    /\ single_words = 0
    /\ n_updates = 0

\* a caller enters update() of instance w with tensors built from the samples
Call(w, preds, tgts, time) ==
    /\ pc' = "invoked"
    /\ op' = "update"
    /\ self' = w
    /\ args' = [predictions |-> Tensor(preds, time),
                predictions_lengths |-> Lengths(preds),
                targets |-> Tensor(tgts, time),
                target_lengths |-> Lengths(tgts)]
    /\ outcome' = "none"
    /\ n_updates' = n_updates + 1
    /\ UNCHANGED <<config, scores, words, ret, locals, history>>

\* update() is called with 0 .. MaxBatch predictions and 0 .. MaxBatch targets
CallBatch(w) ==
    /\ pc = "idle"
    /\ n_updates < MaxUpdates
    /\ \E preds \in SeqsUpTo(SeqsUpTo(PredictionIds, MaxTime), MaxBatch),
          tgts \in SeqsUpTo(SeqsUpTo(TranscriptIds, MaxTime), MaxBatch) :
           Call(w, preds, tgts, MaxTime)

\* update() is called with one prediction and one target of up to MaxLongTime ids
CallSample(w) ==
    /\ pc = "idle"
    /\ n_updates < MaxUpdates
    /\ \E pred \in SeqsUpTo(PredictionIds, MaxLongTime),
          tgt \in SeqsUpTo(TranscriptIds, MaxLongTime) :
           Call(w, <<pred>>, <<tgt>>, MaxLongTime)

\* WERBPE.update, from its first line to its return or raise
Update ==
    /\ pc = "invoked"
    /\ op = "update"
    /\ LET result == UpdateOutcome(args)
           pairs == UpdatePairs(args)
           batch_scores == BatchScores(pairs)
           batch_words == BatchWords(pairs)
       IN  /\ outcome' = result
           /\ IF result = "DecodeError"
              THEN references' = <<>> /\ hypotheses' = <<>>
              ELSE /\ references' = References(args.targets, args.target_lengths)
                   /\ hypotheses' = Hypotheses(args.predictions, args.predictions_lengths)
           /\ IF result = "ok"
              THEN /\ scores' = [scores EXCEPT ![self] = StoreScores(@, batch_scores)]
                   /\ words' = [words EXCEPT ![self] = StoreWords(@, batch_words)]
                   /\ total_scores' = [total_scores EXCEPT ![self] = @ + batch_scores]
                   /\ total_words' = [total_words EXCEPT ![self] = @ + batch_words]
                   /\ processed' = [processed EXCEPT ![self] = @ + 1]
                   /\ single_scores' = StoreScores(single_scores, batch_scores)
                   /\ single_words' = StoreWords(single_words, batch_words)
              ELSE /\ scores' = [scores EXCEPT ![self] = KeepOnRaise(@)]
                   /\ words' = [words EXCEPT ![self] = KeepOnRaise(@)]
                   /\ UNCHANGED history
    /\ pc' = "returned"
    /\ UNCHANGED <<config, op, self, args, ret, n_updates>>

\* WERBPE.compute on instance w, called when no call is open or right after the
\* previous compute() returned
Compute(w) ==
    /\ pc = "idle" \/ (pc = "returned" /\ op = "compute")
    /\ pc' = "returned"
    /\ op' = "compute"
    /\ self' = w
    /\ outcome' = "ok"
    /\ ret' = ComputeValue(scores[w], words[w])
    /\ UNCHANGED <<config, scores, words, args, locals, history, n_updates>>

\* the caller takes the result and drops the arguments
Return ==
    /\ pc = "returned"
    /\ pc' = "idle"
    /\ op' = "none"
    /\ self' = 0
    /\ args' = NoArgs
    /\ ret' = NoRet
    /\ outcome' = "none"
    /\ references' = <<>>
    /\ hypotheses' = <<>>
    /\ UNCHANGED <<config, scores, words, history, n_updates>>

Next ==
    \/ \E w \in Workers : CallBatch(w)
    \/ \E w \in Workers : CallSample(w)
    \/ Update
    \/ \E w \in Workers : Compute(w)
    \/ Return

Spec == Init /\ [][Next]_vars

(* ------------------------------- claims -------------------------------- *)

\* an update() call has just ended
UpdateReturned == pc = "returned" /\ op = "update"

\* the step is an execution of update()
UpdateStep == pc = "invoked" /\ pc' = "returned"

\* the step is an execution of compute()
ComputeStep == pc' = "returned" /\ op' = "compute" /\ (pc = "idle" \/ op = "compute")

\* C1: after any sequence of update() calls, distance_sum of an instance is the sum
\* of the edit distances of all pairs in all batches it processed, and
\* reference_unit_count the sum of their reference unit counts.
C1_TotalsOfAllBatches ==
    \A w \in Workers : scores[w] = total_scores[w] /\ words[w] = total_words[w]

\* C2: neither total of an instance ever decreases in an update() call.
C2_NonDecreasing ==
    [][UpdateStep => \A w \in Workers : scores'[w] >= scores[w] /\ words'[w] >= words[w]]_vars

\* C3: when every instance has processed one or more batches, the sum of the
\* instances' states, in either order, is the state of a single instance that
\* processed all of their batches.
C3_MergeIsSingle ==
    (pc = "idle" /\ \A w \in Workers : processed[w] >= 1) =>
        /\ Merge(State(1), State(2)) = [scores |-> single_scores, words |-> single_words]
        /\ Merge(State(2), State(1)) = [scores |-> single_scores, words |-> single_words]

\* C4: compute() changes neither total; it returns (distance_sum /
\* reference_unit_count, distance_sum, reference_unit_count) of the state it is
\* called in; a compute() right after a compute() on the same instance returns
\* the same triple.
C4_ComputeReadsOnly ==
    [][ComputeStep =>
        /\ scores' = scores /\ words' = words
        /\ ret'.scores = scores[self'] /\ ret'.words = words[self']
        /\ words[self'] # 0 =>
             /\ ret'.ratio.kind = "finite" /\ ret'.ratio.den > 0
             /\ ret'.ratio.num * words[self'] = scores[self'] * ret'.ratio.den
        /\ (op = "compute" /\ self' = self) => ret' = ret]_vars

\* C4's case: compute() returned for an instance whose totals are both positive,
\* and neither is the other
C4_Witness ==
    /\ pc = "returned" /\ op = "compute"
    /\ scores[self] > 0 /\ words[self] > scores[self]
    /\ ret.ratio.kind = "finite"

\* C8: compute() on a state with reference_unit_count = 0 raises nothing, leaves
\* the state as it is and returns the two totals with a ratio that is no number:
\* nan for 0/0, infinite for a positive distance_sum.
C8_ZeroCountNotSpecialCased ==
    [][(ComputeStep /\ words[self'] = 0) =>
        /\ outcome' = "ok"
        /\ scores' = scores /\ words' = words
        /\ ret'.scores = scores[self'] /\ ret'.words = 0
        /\ ret'.ratio.kind = (IF scores[self'] = 0 THEN "nan" ELSE "inf")]_vars

\* C8's case: compute() returned for an instance that has processed a batch and
\* holds a positive distance_sum over zero reference units
C8_Witness ==
    /\ pc = "returned" /\ op = "compute"
    /\ processed[self] >= 1 /\ words[self] = 0 /\ scores[self] > 0
    /\ ret.ratio.kind = "inf"

\* the n-th smallest element of a finite set of numbers
NthOf(K, n) == CHOOSE i \in K : Cardinality({j \in K : j < i}) = n - 1

\* the elements of s at the positions K, in order
SubseqAt(s, K) == [n \in 1..Cardinality(K) |-> s[NthOf(K, n)]]

\* the whitespace split of a text: its maximal runs without a space
WordStarts(t) == {i \in 1..Len(t) : t[i] # SPACE /\ (i = 1 \/ t[i - 1] = SPACE)}
WordEnd(t, i) ==
    CHOOSE j \in i..Len(t) :
        (\A k \in i..j : t[k] # SPACE) /\ (j = Len(t) \/ t[j + 1] = SPACE)
WordsOf(t) ==
    [n \in 1..Cardinality(WordStarts(t)) |->
        SubSeq(t, NthOf(WordStarts(t), n), WordEnd(t, NthOf(WordStarts(t), n)))]

\* the units of a text: its characters in character mode, its words in word mode
UnitsOf(t) == IF use_cer THEN [i \in 1..Len(t) |-> t[i]] ELSE WordsOf(t)

\* the Levenshtein distance, by its recurrence on the first units
RECURSIVE Distance(_, _)
Distance(a, b) ==
    IF a = <<>> THEN Len(b)
    ELSE IF b = <<>> THEN Len(a)
    ELSE IF Head(a) = Head(b) THEN Distance(Tail(a), Tail(b))
    ELSE 1 + Min3(Distance(Tail(a), b), Distance(a, Tail(b)), Distance(Tail(a), Tail(b)))

\* the sum of f[i] over the indices 1 .. n
RECURSIVE SumTo(_, _)
SumTo(f, n) == IF n = 0 THEN 0 ELSE f[n] + SumTo(f, n - 1)

\* the two scenarios of the specification, as texts
TheCatSat == <<"t","h","e"," ","c","a","t"," ","s","a","t">>
TheCatSit == <<"t","h","e"," ","c","a","t"," ","s","i","t">>
ADogRan == <<"a"," ","d","o","g"," ","r","a","n">>
Abc == <<"a","b","c">>
Abd == <<"a","b","d">>

\* the loop of update() on the scenario of the mode the instance is in
Scenario ==
    IF use_cer
    THEN /\ BatchScores(Zip(<<Abd>>, <<Abc>>)) = 1
         /\ BatchWords(Zip(<<Abd>>, <<Abc>>)) = 3
    ELSE /\ BatchScores(Zip(<<TheCatSit, ADogRan>>, <<TheCatSat, ADogRan>>)) = 1
         /\ BatchWords(Zip(<<TheCatSit, ADogRan>>, <<TheCatSat, ADogRan>>)) = 6
         /\ ComputeValue(1, 6).ratio = [kind |-> "finite", num |-> 1, den |-> 6]

\* C5: an update() that returns has paired hypotheses[i] with references[i] in
\* batch order; the totals of the batch are the sum of the Levenshtein distances
\* of the units of each pair and the sum of the reference unit counts, units
\* being characters in character mode and whitespace-separated words in word
\* mode; the loop gives 1 and 6 (ratio 1/6) and 1 and 3 on the two scenarios.
C5_BatchTotals ==
    /\ (UpdateReturned /\ outcome = "ok") =>
         LET n == Min(Len(hypotheses), Len(references)) IN
         /\ scores[self] =
              SumTo([i \in 1..n |-> Distance(UnitsOf(hypotheses[i]), UnitsOf(references[i]))], n)
         /\ words[self] = SumTo([i \in 1..n |-> Len(UnitsOf(references[i]))], n)
    /\ (pc = "idle" /\ n_updates = 0) => Scenario

\* C5's case: an update() returned on a batch of two pairs that differ
C5_Witness ==
    /\ UpdateReturned /\ outcome = "ok"
    /\ Len(hypotheses) = 2 /\ Len(references) = 2
    /\ hypotheses[1] # hypotheses[2]
    /\ scores[self] = 1 /\ words[self] = 2

\* C6: an update() whose predictions and targets differ in their batch dimension
\* ends in an error.
C6_MismatchIsFatal ==
    (UpdateReturned /\ Len(args.predictions) # Len(args.targets)) => outcome # "ok"

\* C7: an update() ends in the same outcome and the same two totals as it would
\* with the other value of logSamplePrediction, on every batch and prior state.
C7_LogIsObservational ==
    [][UpdateStep =>
        LET other == UpdateOutcomeWith(~log_prediction, args) IN
        /\ outcome' = other
        /\ scores'[self] = (IF other = "ok" THEN BatchScores(UpdatePairs(args))
                            ELSE scores[self])
        /\ words'[self] = (IF other = "ok" THEN BatchWords(UpdatePairs(args))
                           ELSE words[self])]_vars

\* the input with each run of equal ids collapsed to one
CollapseRuns(ids) == SubseqAt(ids, {i \in 1..Len(ids) : i = 1 \/ ids[i] # ids[i - 1]})

\* the input without the blank ids
RemoveBlanks(ids, blank) == SubseqAt(ids, {i \in 1..Len(ids) : ids[i] # blank})

\* what fold is specified to give
Folded(ids, blank, foldConsecutive) ==
    IF foldConsecutive THEN RemoveBlanks(CollapseRuns(ids), blank)
    ELSE RemoveBlanks(ids, blank)

\* the ids of sample i of the predictions of the current call
PredictionIdsOf(i) == SubSeq(args.predictions[i], 1, args.predictions_lengths[i])

\* C9: fold gives, for every id sequence, the input with runs collapsed and blanks
\* then removed when foldConsecutive is set, and the input with only the blanks
\* removed when it is not; never a blank; nothing for an empty or all-blank
\* input; [a,b,b] and [a,a,b,b,b] on [a,a,b,blank,b,b]; and the hypotheses of
\* update() are the texts of the predictions folded with the configured flag.
C9_FoldAsConfigured ==
    /\ (op = "update") =>
         \A i \in 1..Len(args.predictions) : \A f \in BOOLEAN :
            LET ids == PredictionIdsOf(i)
                out == Fold(ids, blank_id, f)
            IN  /\ out = Folded(ids, blank_id, f)
                /\ \A k \in 1..Len(out) : out[k] # blank_id
                /\ (\A k \in 1..Len(ids) : ids[k] = blank_id) => out = <<>>
    /\ (UpdateReturned /\ outcome # "DecodeError") =>
         /\ Len(hypotheses) = Len(args.predictions)
         /\ \A i \in 1..Len(hypotheses) :
              hypotheses[i] = IdsToText(Folded(PredictionIdsOf(i), blank_id, fold_consecutive))
    /\ (pc = "idle" /\ n_updates = 0) =>
         /\ Fold(<<1, 1, 2, 3, 2, 2>>, 3, TRUE) = <<1, 2, 2>>
         /\ Fold(<<1, 1, 2, 3, 2, 2>>, 3, FALSE) = <<1, 1, 2, 2, 2>>
         /\ Fold(<<>>, 3, TRUE) = <<>> /\ Fold(<<>>, 3, FALSE) = <<>>

\* C9's case: update() returned, with folding, on a prediction whose two equal
\* ids are separated by a blank
C9_Witness ==
    /\ UpdateReturned /\ outcome = "ok" /\ fold_consecutive
    /\ Len(args.predictions) = 1
    /\ PredictionIdsOf(1) = <<1, blank_id, 1>>
    /\ hypotheses[1] = <<"a", "a">>

\* C10: an update() that raises leaves both totals of every instance as they were.
C10_RaiseLeavesState ==
    [][(UpdateStep /\ outcome' # "ok") => (scores' = scores /\ words' = words)]_vars

\* C10's case: an update() raised in its log step on an instance that holds
\* totals of an earlier batch
C10_Witness ==
    /\ UpdateReturned /\ outcome = "IndexError"
    /\ processed[self] >= 1 /\ scores[self] > 0 /\ words[self] > 0

=============================================================================
